---- MODULE Spec2Model ----
(***************************************************************************)
(* Model of scripts/install_dependencies_json_packages.py: the manifest    *)
(* validator (test_dependencies_syntax, validate_dependencies), the three  *)
(* fetchers (download_files, download_and_unzip_files,                     *)
(* download_and_untar_files) and the orchestrator                          *)
(* (download_all_dependencies).                                            *)
(*                                                                         *)
(* Strings that the code takes apart or concatenates are sequences:        *)
(*   - a directory name is a sequence of characters, + is \o;              *)
(*   - a url is a sequence of segments drawn from UrlSegments; no segment  *)
(*     other than ".zip" ends in ".zip", none other than ".tar.gz" ends in *)
(*     ".tar.gz" and only "#" holds a '#', so str.endswith and             *)
(*     str.rpartition on the concatenated text are decided by segments.    *)
(* A dependency entry is a function from the keys present to their values. *)
(***************************************************************************)
EXTENDS Integers, Sequences, FiniteSets, TLC

VARIABLES
    manifest,     \* the parsed 'dependencies' mapping, flattened in iteration order
    pc,           \* position of the script
    err,          \* why the script stopped (kind, key)
    i,            \* index of the entry under the orchestrator's loop
    j,            \* index into source_filenames inside download_files
    call,         \* arguments of the fetcher call in progress
    arch,         \* name of the top-level folder of the archive last fetched
    fs,           \* per parent directory: existing child name -> set of files in it
    dirs,         \* parent directories that exist
    tmp,          \* TMP_UNZIP_PATH exists
    net,          \* network calls made so far, in order
    callFs,       \* fs when the fetcher in progress was invoked
    callNet,      \* Len(net) when the fetcher in progress was invoked
    startFs       \* fs when the script started

vars == <<manifest, pc, err, i, j, call, arch, fs, dirs, tmp, net, callFs,
          callNet, startFs>>

-----------------------------------------------------------------------------
(* Bounds *)

MaxDeps == 2        \* entries in a manifest of Spec
MaxUrlLen == 3      \* segments in a url of SpecSyntax
MaxFiles == 3       \* length of source_filenames in SpecFiles

-----------------------------------------------------------------------------
(* Module constants of the script *)

TARGET_DOWNLOAD_DIRS ==
    [proto |-> "./third_party",
     frontend |-> "./third_party/static",
     oppiaTools |-> "../oppia_tools"]

Dirs == {TARGET_DOWNLOAD_DIRS[c] : c \in DOMAIN TARGET_DOWNLOAD_DIRS}

_DOWNLOAD_FORMAT_ZIP == "zip"
_DOWNLOAD_FORMAT_TAR == "tar"
_DOWNLOAD_FORMAT_FILES == "files"

DOWNLOAD_FORMATS_TO_DEPENDENCIES_KEYS ==
    [zip |->
        [mandatory_keys |-> <<"version", "url", "downloadFormat">>,
         optional_key_pairs |->
            << <<"rootDir", "rootDirPrefix">>, <<"targetDir", "targetDirPrefix">> >>],
     files |->
        [mandatory_keys |->
            <<"version", "url", "files", "targetDirPrefix", "downloadFormat">>,
         optional_key_pairs |-> << >>],
     tar |->
        [mandatory_keys |->
            <<"version", "url", "tarRootDirPrefix", "targetDirPrefix",
              "downloadFormat">>,
         optional_key_pairs |-> << >>]]

DependencyKeys ==
    {"version", "downloadFormat", "url", "rootDirPrefix", "rootDir",
     "targetDirPrefix", "targetDir", "tarRootDirPrefix", "files"}

-----------------------------------------------------------------------------
(* Strings *)

UrlSegments == {"h", "#", ".zip", ".tar.gz"}

\* str.endswith(suffix) on a url
endswith(s, suffix) == Len(s) > 0 /\ s[Len(s)] = suffix

\* '#' in dependency_url
HasFragment(s) == \E k \in 1..Len(s) : s[k] = "#"

Min(S) == CHOOSE x \in S : \A y \in S : x <= y
Max(S) == CHOOSE x \in S : \A y \in S : x >= y

\* dependency_url.rpartition('#')[0]: the text before the last '#'
rpartition_head(s) ==
    LET last == Max({k \in 1..Len(s) : s[k] = "#"})
    IN  SubSeq(s, 1, last - 1)

-----------------------------------------------------------------------------
(* Schema validator *)

Ok == [kind |-> "ok", key |-> ""]
Failure(kind, key) == [kind |-> kind, key |-> key]

\* the part of the url the suffix test looks at
StrippedUrl(dependency_url) ==
    IF HasFragment(dependency_url)
    THEN rpartition_head(dependency_url)
    ELSE dependency_url

\* the mutant drops the two "not this format" disjuncts
UrlInvalidOwnSuffixOnly(dependency_type, dependency_url) ==
    LET is_zip_file_format == dependency_type = _DOWNLOAD_FORMAT_ZIP
        is_tar_file_format == dependency_type = _DOWNLOAD_FORMAT_TAR
    IN  \/ is_zip_file_format /\ ~endswith(dependency_url, ".zip")
        \/ is_tar_file_format /\ ~endswith(dependency_url, ".tar.gz")

\* the mutant drops the two "this format, other suffix" disjuncts
UrlInvalidForeignSuffixOnly(dependency_type, dependency_url) ==
    LET is_zip_file_format == dependency_type = _DOWNLOAD_FORMAT_ZIP
        is_tar_file_format == dependency_type = _DOWNLOAD_FORMAT_TAR
    IN  \/ endswith(dependency_url, ".zip") /\ ~is_zip_file_format
        \/ endswith(dependency_url, ".tar.gz") /\ ~is_tar_file_format

UrlInvalid(dependency_type, dependency_url) ==
    LET is_zip_file_format == dependency_type = _DOWNLOAD_FORMAT_ZIP
        is_tar_file_format == dependency_type = _DOWNLOAD_FORMAT_TAR
    IN  \/ endswith(dependency_url, ".zip") /\ ~is_zip_file_format
        \/ is_zip_file_format /\ ~endswith(dependency_url, ".zip")
        \/ endswith(dependency_url, ".tar.gz") /\ ~is_tar_file_format
        \/ is_tar_file_format /\ ~endswith(dependency_url, ".tar.gz")

\* the mutant accepts a pair of which no member is present
PairBadOnlyWhenBoth(optional_keys, keys) ==
    Cardinality({m \in 1..Len(optional_keys) : optional_keys[m] \in keys}) > 1

PairBad(optional_keys, keys) ==
    Cardinality({m \in 1..Len(optional_keys) : optional_keys[m] \in keys}) # 1

test_dependencies_syntax(dependency_type, dependency_dict) ==
    LET keys == DOMAIN dependency_dict
    IN
    IF dependency_type \notin DOMAIN DOWNLOAD_FORMATS_TO_DEPENDENCIES_KEYS
    THEN Failure("KeyError", "downloadFormat")
    ELSE
    LET mandatory_keys ==
            DOWNLOAD_FORMATS_TO_DEPENDENCIES_KEYS[dependency_type].mandatory_keys
        optional_key_pairs ==
            DOWNLOAD_FORMATS_TO_DEPENDENCIES_KEYS[dependency_type].optional_key_pairs
        missing == {k \in 1..Len(mandatory_keys) : mandatory_keys[k] \notin keys}
        badPairs == {k \in 1..Len(optional_key_pairs) :
                        PairBad(optional_key_pairs[k], keys)}
    IN
    IF missing # {}
    THEN Failure("mandatory", mandatory_keys[Min(missing)])
    ELSE IF badPairs # {}
    THEN Failure("pair", optional_key_pairs[Min(badPairs)][1])
    ELSE IF UrlInvalid(dependency_type, StrippedUrl(dependency_dict["url"]))
    THEN Failure("url", "url")
    ELSE Ok

\* the result of validating entry k alone
ValidateEntry(dependency_contents) ==
    IF "downloadFormat" \notin DOMAIN dependency_contents
    THEN Failure("Exception", "downloadFormat")
    ELSE test_dependencies_syntax(
            dependency_contents["downloadFormat"], dependency_contents)

\* the mutant stops after the first entry
validate_first_entry_only(m) ==
    IF Len(m) = 0 THEN Ok ELSE ValidateEntry(m[1].dep)

\* validate_dependencies: the first failure in iteration order, or Ok
validate_dependencies(m) ==
    LET bad == {k \in 1..Len(m) : ValidateEntry(m[k].dep).kind # "ok"}
    IN  IF bad = {} THEN Ok ELSE ValidateEntry(m[Min(bad)].dep)

-----------------------------------------------------------------------------
(* Filesystem *)

EmptyTree == [n \in {} |-> {}]
EmptyFs == [d \in Dirs |-> EmptyTree]

\* the mutant never finds the target path
ExistsNever(f, parent, name) == FALSE

\* os.path.exists(os.path.join(parent, name))
Exists(f, parent, name) == name \in DOMAIN f[parent]

\* the members of every archive, in extraction order
ArchiveMembers == <<"a", "c">>
Members(k) == {ArchiveMembers[m] : m \in 1..k}

\* the folder name an archive has when the manifest is wrong about it
WrongRoot == <<"x">>

\* extractall(path=parent) of an archive whose top-level folder is root,
\* stopped after k members: the folder is created or merged into
Extract(f, parent, root, k) ==
    [f EXCEPT ![parent] =
        [n \in DOMAIN f[parent] \cup {root} |->
            IF n = root
            THEN (IF root \in DOMAIN f[parent] THEN f[parent][root] ELSE {})
                    \cup Members(k)
            ELSE f[parent][n]]]

\* os.rename(src, dst) inside parent raises
RenameFails(f, parent, src, dst) ==
    \/ src \notin DOMAIN f[parent]
    \/ src # dst /\ dst \in DOMAIN f[parent] /\ f[parent][dst] # {}

\* os.rename(src, dst) inside parent, when it does not raise
Rename(f, parent, src, dst) ==
    IF src = dst THEN f
    ELSE [f EXCEPT ![parent] =
            [n \in (DOMAIN f[parent] \ {src}) \cup {dst} |->
                IF n = dst THEN f[parent][src] ELSE f[parent][n]]]

\* common.ensure_directory_exists(target_dir) for a child of parent
MakeDir(f, parent, name) ==
    IF name \in DOMAIN f[parent] THEN f
    ELSE [f EXCEPT ![parent] =
            [n \in DOMAIN f[parent] \cup {name} |->
                IF n = name THEN {} ELSE f[parent][n]]]

\* a file written into parent/name
AddFile(f, parent, name, filename) ==
    [f EXCEPT ![parent][name] = @ \cup {filename}]

NetCall(op, arg) == [op |-> op, arg |-> arg, i |-> i]

-----------------------------------------------------------------------------
(* Orchestrator: the body of the loop of download_all_dependencies *)

NoCall ==
    [fmt |-> "", parent |-> "", root |-> <<>>, target |-> <<>>, url |-> <<>>,
     files |-> <<>>]

NoErr == [kind |-> "none", key |-> ""]

ZipRootName(dependency_contents) ==
    IF "rootDir" \in DOMAIN dependency_contents
    THEN dependency_contents["rootDir"]
    ELSE dependency_contents["rootDirPrefix"] \o dependency_contents["version"]

ZipTargetName(dependency_contents) ==
    IF "targetDir" \in DOMAIN dependency_contents
    THEN dependency_contents["targetDir"]
    ELSE dependency_contents["targetDirPrefix"] \o dependency_contents["version"]

\* the keys the loop body reads for an entry, a missing one raising KeyError
KeysRead(dependency_contents) ==
    LET download_format == dependency_contents["downloadFormat"]
    IN  IF download_format = _DOWNLOAD_FORMAT_FILES
        THEN {"files", "targetDirPrefix"}
        ELSE IF download_format = _DOWNLOAD_FORMAT_ZIP
        THEN (IF "rootDir" \in DOMAIN dependency_contents
              THEN {} ELSE {"rootDirPrefix"})
             \cup (IF "targetDir" \in DOMAIN dependency_contents
                   THEN {} ELSE {"targetDirPrefix"})
        ELSE IF download_format = _DOWNLOAD_FORMAT_TAR
        THEN {"tarRootDirPrefix", "targetDirPrefix"}
        ELSE {}

\* what one pass of the loop body does before it enters a fetcher:
\* it raises, calls a fetcher with resolved arguments, or matches no branch
LoopBody(data, dependency_contents) ==
    LET keys == DOMAIN dependency_contents
        raise(kind, key) == [kind |-> "raise", err |-> Failure(kind, key),
                             call |-> NoCall]
    IN
    IF ~({"version", "url", "downloadFormat"} \subseteq keys)
    THEN raise("KeyError", "entry")
    ELSE
    LET dependency_rev == dependency_contents["version"]
        dependency_url == dependency_contents["url"]
        download_format == dependency_contents["downloadFormat"]
    IN
    IF download_format \notin
            {_DOWNLOAD_FORMAT_FILES, _DOWNLOAD_FORMAT_ZIP, _DOWNLOAD_FORMAT_TAR}
    THEN [kind |-> "skip", err |-> NoErr, call |-> NoCall]
    ELSE IF ~(KeysRead(dependency_contents) \subseteq keys)
    THEN raise("KeyError", "entry")
    ELSE IF data \notin DOMAIN TARGET_DOWNLOAD_DIRS
    THEN raise("KeyError", "category")
    ELSE IF download_format = _DOWNLOAD_FORMAT_FILES
    THEN [kind |-> "call", err |-> NoErr,
          call |-> [fmt |-> download_format,
                    parent |-> TARGET_DOWNLOAD_DIRS[data],
                    root |-> <<>>,
                    target |-> dependency_contents["targetDirPrefix"]
                                    \o dependency_rev,
                    url |-> dependency_url,
                    files |-> dependency_contents["files"]]]
    ELSE IF download_format = _DOWNLOAD_FORMAT_ZIP
    THEN [kind |-> "call", err |-> NoErr,
          call |-> [fmt |-> download_format,
                    parent |-> TARGET_DOWNLOAD_DIRS[data],
                    root |-> ZipRootName(dependency_contents),
                    target |-> ZipTargetName(dependency_contents),
                    url |-> dependency_url,
                    files |-> <<>>]]
    ELSE [kind |-> "call", err |-> NoErr,
          call |-> [fmt |-> download_format,
                    parent |-> TARGET_DOWNLOAD_DIRS[data],
                    root |-> dependency_contents["tarRootDirPrefix"]
                                    \o dependency_rev,
                    target |-> dependency_contents["targetDirPrefix"]
                                    \o dependency_rev,
                    url |-> dependency_url,
                    files |-> <<>>]]

-----------------------------------------------------------------------------
(* Actions: download_all_dependencies *)

Stop(kind, e) == /\ pc' = kind
                 /\ err' = e

\* validate_dependencies(filepath), the first statement of the orchestrator
Validate ==
    /\ pc = "validate"
    /\ LET r == validate_dependencies(manifest)
       IN  /\ err' = (IF r.kind = "ok" THEN NoErr ELSE r)
           /\ pc' = IF r.kind = "ok" THEN "loop"
                    ELSE IF r.kind \in {"mandatory", "pair", "url"} THEN "exit1"
                    ELSE "raised"
    /\ i' = 1
    /\ UNCHANGED <<manifest, j, call, arch, fs, dirs, tmp, net, callFs, callNet,
                   startFs>>

\* one pass of the loop body up to the call of the fetcher
Dispatch ==
    /\ pc = "loop"
    /\ i <= Len(manifest)
    /\ LET r == LoopBody(manifest[i].data, manifest[i].dep)
       IN  /\ call' = r.call
           /\ err' = r.err
           /\ pc' = IF r.kind = "raise" THEN "raised"
                    ELSE IF r.kind = "skip" THEN "return"
                    ELSE IF r.call.fmt = _DOWNLOAD_FORMAT_FILES THEN "files_call"
                    ELSE IF r.call.fmt = _DOWNLOAD_FORMAT_ZIP THEN "zip_call"
                    ELSE "tar_call"
    /\ callFs' = fs
    /\ callNet' = Len(net)
    /\ UNCHANGED <<manifest, i, j, arch, fs, dirs, tmp, net, startFs>>

\* the fetcher returned: the loop goes on with the next entry
Return ==
    /\ pc = "return"
    /\ pc' = "loop"
    /\ i' = i + 1
    /\ UNCHANGED <<manifest, err, j, call, arch, fs, dirs, tmp, net, callFs,
                   callNet, startFs>>

\* the loop is exhausted: download_all_dependencies returns
Finish ==
    /\ pc = "loop"
    /\ i > Len(manifest)
    /\ pc' = "done"
    /\ UNCHANGED <<manifest, err, i, j, call, arch, fs, dirs, tmp, net, callFs,
                   callNet, startFs>>

-----------------------------------------------------------------------------
(* Actions: download_files *)

\* the mutant downloads every listed file
FileMissingAlways(f, parent, target, filename) == TRUE

\* not os.path.exists(os.path.join(target_dir, filename))
FileMissing(f, parent, target, filename) == filename \notin f[parent][target]

download_files_enter ==
    /\ pc = "files_call"
    /\ fs' = MakeDir(fs, call.parent, call.target)
    /\ dirs' = dirs \cup {call.parent}
    /\ j' = 1
    /\ pc' = "files_loop"
    /\ UNCHANGED <<manifest, err, i, call, arch, tmp, net, callFs, callNet,
                   startFs>>

download_files_loop ==
    /\ pc = "files_loop"
    /\ \/ /\ j > Len(call.files)
          /\ pc' = "return"
          /\ UNCHANGED <<err, j, fs, net>>
       \/ /\ j <= Len(call.files)
          /\ ~FileMissing(fs, call.parent, call.target, call.files[j])
          /\ j' = j + 1
          /\ UNCHANGED <<pc, err, fs, net>>
       \/ /\ j <= Len(call.files)
          /\ FileMissing(fs, call.parent, call.target, call.files[j])
          /\ net' = Append(net, NetCall("url_retrieve", call.files[j]))
          /\ \/ /\ fs' = AddFile(fs, call.parent, call.target, call.files[j])
                /\ j' = j + 1
                /\ UNCHANGED <<pc, err>>
             \/ /\ Stop("raised", Failure("IOError", "url_retrieve"))
                /\ UNCHANGED <<j, fs>>
    /\ UNCHANGED <<manifest, i, call, arch, dirs, tmp, callFs, callNet, startFs>>

-----------------------------------------------------------------------------
(* Actions: download_and_unzip_files *)

\* the mutant leaves the temporary file behind in the except branch
KeepTmp(t) == t

\* if os.path.exists(TMP_UNZIP_PATH): os.remove(TMP_UNZIP_PATH)
RemoveTmpIfExists(t) == FALSE

\* the archive at a url: its top-level folder is the one the manifest names,
\* or another one
ArchiveRoots(c) == {c.root, WrongRoot}

\* what a failed extractall leaves in the parent directory: nothing (the file
\* is no archive), or the top-level folder with the first k members
PartialExtracts(f, parent, root) ==
    {f} \cup {Extract(f, parent, root, k) : k \in 0..(Len(ArchiveMembers) - 1)}

download_and_unzip_files_enter ==
    /\ pc = "zip_call"
    /\ IF Exists(fs, call.parent, call.target)
       THEN /\ pc' = "return"
            /\ UNCHANGED dirs
       ELSE /\ pc' = "zip_retrieve"
            /\ dirs' = dirs \cup {call.parent}
    /\ UNCHANGED <<manifest, err, i, j, call, arch, fs, tmp, net, callFs,
                   callNet, startFs>>

download_and_unzip_files_retrieve ==
    /\ pc = "zip_retrieve"
    /\ net' = Append(net, NetCall("url_retrieve", call.url))
    /\ \/ /\ tmp' = TRUE
          /\ arch' \in ArchiveRoots(call)
          /\ pc' = "zip_extract"
          /\ UNCHANGED err
       \/ /\ Stop("raised", Failure("IOError", "url_retrieve"))
          /\ UNCHANGED <<tmp, arch>>
    /\ UNCHANGED <<manifest, i, j, call, fs, dirs, callFs, callNet, startFs>>

download_and_unzip_files_extract ==
    /\ pc = "zip_extract"
    /\ \/ /\ fs' = Extract(fs, call.parent, arch, Len(ArchiveMembers))
          /\ tmp' = FALSE
          /\ pc' = "zip_rename"
       \/ /\ fs' \in PartialExtracts(fs, call.parent, arch)
          /\ tmp' = RemoveTmpIfExists(tmp)
          /\ pc' = "zip_fallback"
    /\ UNCHANGED <<manifest, err, i, j, call, arch, dirs, net, callFs, callNet,
                   startFs>>

download_and_unzip_files_fallback ==
    /\ pc = "zip_fallback"
    /\ net' = Append(net, NetCall("url_open", call.url))
    /\ \/ /\ pc' = "zip_extract2"
          /\ UNCHANGED err
       \/ Stop("raised", Failure("IOError", "url_open"))
    /\ UNCHANGED <<manifest, i, j, call, arch, fs, dirs, tmp, callFs, callNet,
                   startFs>>

download_and_unzip_files_extract2 ==
    /\ pc = "zip_extract2"
    /\ \/ /\ fs' = Extract(fs, call.parent, arch, Len(ArchiveMembers))
          /\ pc' = "zip_rename"
          /\ UNCHANGED err
       \/ /\ fs' \in PartialExtracts(fs, call.parent, arch)
          /\ Stop("raised", Failure("BadZipFile", "extractall"))
    /\ UNCHANGED <<manifest, i, j, call, arch, dirs, tmp, net, callFs, callNet,
                   startFs>>

download_and_unzip_files_rename ==
    /\ pc = "zip_rename"
    /\ IF RenameFails(fs, call.parent, call.root, call.target)
       THEN /\ Stop("raised", Failure("OSError", "rename"))
            /\ UNCHANGED fs
       ELSE /\ fs' = Rename(fs, call.parent, call.root, call.target)
            /\ pc' = "return"
            /\ UNCHANGED err
    /\ UNCHANGED <<manifest, i, j, call, arch, dirs, tmp, net, callFs, callNet,
                   startFs>>

-----------------------------------------------------------------------------
(* Actions: download_and_untar_files *)

download_and_untar_files_enter ==
    /\ pc = "tar_call"
    /\ IF Exists(fs, call.parent, call.target)
       THEN /\ pc' = "return"
            /\ UNCHANGED dirs
       ELSE /\ pc' = "tar_retrieve"
            /\ dirs' = dirs \cup {call.parent}
    /\ UNCHANGED <<manifest, err, i, j, call, arch, fs, tmp, net, callFs,
                   callNet, startFs>>

download_and_untar_files_retrieve ==
    /\ pc = "tar_retrieve"
    /\ net' = Append(net, NetCall("url_retrieve", call.url))
    /\ \/ /\ tmp' = TRUE
          /\ arch' \in ArchiveRoots(call)
          /\ pc' = "tar_extract"
          /\ UNCHANGED err
       \/ /\ Stop("raised", Failure("IOError", "url_retrieve"))
          /\ UNCHANGED <<tmp, arch>>
    /\ UNCHANGED <<manifest, i, j, call, fs, dirs, callFs, callNet, startFs>>

download_and_untar_files_extract ==
    /\ pc = "tar_extract"
    /\ \/ /\ fs' = Extract(fs, call.parent, arch, Len(ArchiveMembers))
          /\ tmp' = FALSE
          /\ pc' = "tar_rename"
          /\ UNCHANGED err
       \/ /\ fs' \in PartialExtracts(fs, call.parent, arch)
          /\ Stop("raised", Failure("TarError", "extractall"))
          /\ UNCHANGED tmp
    /\ UNCHANGED <<manifest, i, j, call, arch, dirs, net, callFs, callNet,
                   startFs>>

download_and_untar_files_rename ==
    /\ pc = "tar_rename"
    /\ IF RenameFails(fs, call.parent, call.root, call.target)
       THEN /\ Stop("raised", Failure("OSError", "rename"))
            /\ UNCHANGED fs
       ELSE /\ fs' = Rename(fs, call.parent, call.root, call.target)
            /\ pc' = "return"
            /\ UNCHANGED err
    /\ UNCHANGED <<manifest, i, j, call, arch, dirs, tmp, net, callFs, callNet,
                   startFs>>

-----------------------------------------------------------------------------
(* Manifests *)

Restrict(f, K) == [k \in K |-> f[k]]

\* an entry that carries every key, with the given format, url and file list
FullEntry(fmt, url, files) ==
    [version |-> <<"1">>,
     downloadFormat |-> fmt,
     url |-> url,
     rootDirPrefix |-> <<"p">>,
     rootDir |-> <<"r">>,
     targetDirPrefix |-> <<"p">>,
     targetDir |-> <<"t">>,
     tarRootDirPrefix |-> <<"q">>,
     files |-> files]

ZipUrl == <<"h", ".zip">>
TarUrl == <<"h", ".tar.gz">>
FilesUrl == <<"h">>
FileList == <<"a", "b">>

Base == {"version", "url", "downloadFormat"}

\* well-formed entries: zip with each choice of the two optional pairs
\* (archive root p1 or r, target p1 or t), tar (root q1, target p1),
\* files (directory p1)
ValidEntries ==
    {Restrict(FullEntry("zip", ZipUrl, FileList), Base \cup {r, t}) :
        r \in {"rootDir", "rootDirPrefix"}, t \in {"targetDir", "targetDirPrefix"}}
    \cup {Restrict(FullEntry("tar", TarUrl, FileList),
                   Base \cup {"tarRootDirPrefix", "targetDirPrefix"})}
    \cup {Restrict(FullEntry("files", FilesUrl, FileList),
                   Base \cup {"files", "targetDirPrefix"})}

\* malformed entries: a missing mandatory key, no downloadFormat, both
\* members of an optional pair, a url of another format
InvalidEntries ==
    {Restrict(FullEntry("zip", ZipUrl, FileList),
              {"url", "downloadFormat", "rootDirPrefix", "targetDirPrefix"}),
     Restrict(FullEntry("zip", ZipUrl, FileList),
              {"version", "url", "rootDirPrefix", "targetDirPrefix"}),
     Restrict(FullEntry("zip", ZipUrl, FileList),
              Base \cup {"rootDir", "rootDirPrefix", "targetDir"}),
     Restrict(FullEntry("files", ZipUrl, FileList),
              Base \cup {"files", "targetDirPrefix"})}

Categories == {"frontend", "oppiaTools", "bogus"}

\* the categories of a parsed JSON object are distinct keys: the entries of
\* one category are contiguous in iteration order
Grouped(m) ==
    \A a, b, c \in 1..Len(m) :
        (a < b /\ b < c /\ m[a].data = m[c].data) => m[b].data = m[a].data

SeqsUpTo(S, n) == UNION {[1..k -> S] : k \in 0..n}

Manifests ==
    {m \in SeqsUpTo([data : Categories, dep : ValidEntries \cup InvalidEntries],
                    MaxDeps) : Grouped(m)}

\* what an earlier, interrupted run may have left: nothing, or a partly
\* filled directory p1
StartTrees ==
    {EmptyFs,
     [EmptyFs EXCEPT ![TARGET_DOWNLOAD_DIRS["frontend"]] =
        [n \in {<<"p", "1">>} |-> {"a"}]]}

-----------------------------------------------------------------------------
(* Spec: a run of download_all_dependencies *)

Init ==
    /\ manifest \in Manifests
    /\ pc = "validate"
    /\ err = NoErr
    /\ i = 0
    /\ j = 0
    /\ call = NoCall
    /\ arch = <<>>
    /\ startFs \in StartTrees
    /\ fs = startFs
    /\ dirs = {d \in Dirs : DOMAIN fs[d] # {}}
    /\ tmp = FALSE
    /\ net = <<>>
    /\ callFs = fs
    /\ callNet = 0

Next ==
    \/ Validate
    \/ Dispatch
    \/ Return
    \/ Finish
    \/ download_files_enter
    \/ download_files_loop
    \/ download_and_unzip_files_enter
    \/ download_and_unzip_files_retrieve
    \/ download_and_unzip_files_extract
    \/ download_and_unzip_files_fallback
    \/ download_and_unzip_files_extract2
    \/ download_and_unzip_files_rename
    \/ download_and_untar_files_enter
    \/ download_and_untar_files_retrieve
    \/ download_and_untar_files_extract
    \/ download_and_untar_files_rename

Spec == Init /\ [][Next]_vars

-----------------------------------------------------------------------------
(* SpecSyntax: validate_dependencies on one entry, over every set of keys,  *)
(* every downloadFormat and every url of at most MaxUrlLen segments         *)

Urls == SeqsUpTo(UrlSegments, MaxUrlLen)

SyntaxEntries ==
    {Restrict(FullEntry(fmt, url, FileList), K) :
        fmt \in {"zip", "tar", "files", "rar"}, url \in Urls,
        K \in SUBSET DependencyKeys}

InitSyntax ==
    /\ manifest \in {<<[data |-> "frontend", dep |-> d]>> : d \in SyntaxEntries}
    /\ pc = "validate"
    /\ err = NoErr
    /\ i = 0
    /\ j = 0
    /\ call = NoCall
    /\ arch = <<>>
    /\ startFs = EmptyFs
    /\ fs = startFs
    /\ dirs = {}
    /\ tmp = FALSE
    /\ net = <<>>
    /\ callFs = fs
    /\ callNet = 0

SpecSyntax == InitSyntax /\ [][Validate]_vars

-----------------------------------------------------------------------------
(* SpecFiles: one call of download_files, over every list of at most        *)
(* MaxFiles filenames and every content of the target directory             *)

FileNames == {"a", "b"}

FilesEntry(files) ==
    Restrict(FullEntry("files", FilesUrl, files), Base \cup {"files", "targetDirPrefix"})

FilesTrees ==
    {EmptyFs} \cup
    {[EmptyFs EXCEPT ![TARGET_DOWNLOAD_DIRS["frontend"]] =
        [n \in {<<"p", "1">>} |-> S]] : S \in SUBSET FileNames}

InitFiles ==
    /\ manifest \in {<<[data |-> "frontend", dep |-> FilesEntry(l)]>> :
                        l \in SeqsUpTo(FileNames, MaxFiles)}
    /\ pc = "files_call"
    /\ err = NoErr
    /\ i = 1
    /\ j = 0
    /\ call = LoopBody(manifest[1].data, manifest[1].dep).call
    /\ arch = <<>>
    /\ startFs \in FilesTrees
    /\ fs = startFs
    /\ dirs = {d \in Dirs : DOMAIN fs[d] # {}}
    /\ tmp = FALSE
    /\ net = <<>>
    /\ callFs = fs
    /\ callNet = 0

NextFiles ==
    \/ download_files_enter
    \/ download_files_loop

SpecFiles == InitFiles /\ [][NextFiles]_vars

-----------------------------------------------------------------------------
(* Properties *)

Started == call # NoCall
TargetExistedAtCall == Started /\ call.target \in DOMAIN callFs[call.parent]
Format(k) == manifest[k].dep["downloadFormat"]
HasFormat(k, fmt) ==
    /\ "downloadFormat" \in DOMAIN manifest[k].dep
    /\ Format(k) = fmt
HasUrl(k) == "url" \in DOMAIN manifest[k].dep
Url(k) == manifest[k].dep["url"]
Validated == pc # "validate"

\* the url cut before its last '#', when it has one
BeforeFragment(u) ==
    IF \E k \in 1..Len(u) : u[k] = "#"
    THEN LET k == CHOOSE n \in 1..Len(u) :
                    u[n] = "#" /\ \A m \in (n + 1)..Len(u) : u[m] # "#"
         IN  SubSeq(u, 1, k - 1)
    ELSE u

EndsIn(u, suffix) == Len(u) > 0 /\ u[Len(u)] = suffix

AnyInvalid ==
    \E k \in 1..Len(manifest) : ValidateEntry(manifest[k].dep).kind # "ok"

Untouched ==
    /\ net = <<>>
    /\ fs = startFs
    /\ dirs = {d \in Dirs : DOMAIN startFs[d] # {}}
    /\ ~tmp

\* C1: when any entry of the manifest, at any position, fails validation, the
\* run never leaves validation: it ends in a failure, and no network call and
\* no change of the filesystem has happened.
C1_ValidateBeforeFetch ==
    AnyInvalid =>
        /\ pc \in {"validate", "exit1", "raised"}
        /\ Validated => err.kind \in {"mandatory", "pair", "url", "Exception",
                                      "KeyError"}
        /\ Untouched

C1_Witness ==
    /\ Len(manifest) = 2
    /\ ValidateEntry(manifest[1].dep).kind = "ok"
    /\ ValidateEntry(manifest[2].dep).kind = "mandatory"
    /\ pc = "exit1"

\* C2 as stated: a zip entry whose url does not end in ".zip", and a tar entry
\* whose url does not end in ".tar.gz", fail validation with exit status 1,
\* for every url, those with a '#' fragment included.
C2_Original ==
    Validated =>
        /\ (HasFormat(1, "zip") /\ HasUrl(1) /\ ~EndsIn(Url(1), ".zip"))
                => pc = "exit1"
        /\ (HasFormat(1, "tar") /\ HasUrl(1) /\ ~EndsIn(Url(1), ".tar.gz"))
                => pc = "exit1"

\* C2 amended: a zip entry fails validation with exit status 1 when its url,
\* cut before its last '#' if it has one, does not end in ".zip"; a tar entry
\* when its url, cut the same way, does not end in ".tar.gz".
C2_SuffixOfUrlBeforeFragment ==
    Validated =>
        /\ (HasFormat(1, "zip") /\ HasUrl(1)
                /\ ~EndsIn(BeforeFragment(Url(1)), ".zip")) => pc = "exit1"
        /\ (HasFormat(1, "tar") /\ HasUrl(1)
                /\ ~EndsIn(BeforeFragment(Url(1)), ".tar.gz")) => pc = "exit1"

C2_Witness ==
    /\ HasFormat(1, "zip")
    /\ HasUrl(1)
    /\ EndsIn(Url(1), ".zip")
    /\ ~EndsIn(BeforeFragment(Url(1)), ".zip")
    /\ pc = "exit1"
    /\ err.kind = "url"

PresentOf(pair, k) ==
    Cardinality({m \in 1..Len(pair) : pair[m] \in DOMAIN manifest[k].dep})

\* C3: for every optional key pair of the entry's downloadFormat, validation
\* fails with exit status 1 when both members or neither member is present,
\* and does not fail on account of that pair when exactly one is present.
C3_OptionalPairs ==
    Validated =>
        \A fmt \in DOMAIN DOWNLOAD_FORMATS_TO_DEPENDENCIES_KEYS :
            HasFormat(1, fmt) =>
                LET pairs ==
                        DOWNLOAD_FORMATS_TO_DEPENDENCIES_KEYS[fmt].optional_key_pairs
                IN  \A n \in 1..Len(pairs) :
                        /\ PresentOf(pairs[n], 1) # 1 => pc = "exit1"
                        /\ PresentOf(pairs[n], 1) = 1 =>
                                ~(err.kind = "pair" /\ err.key = pairs[n][1])

C3_Witness ==
    /\ HasFormat(1, "zip")
    /\ PresentOf(<<"rootDir", "rootDirPrefix">>, 1) = 1
    /\ PresentOf(<<"targetDir", "targetDirPrefix">>, 1) = 0
    /\ pc = "exit1"
    /\ err = [kind |-> "pair", key |-> "targetDir"]

FilesMandatoryPresent(k) ==
    {"version", "url", "files", "targetDirPrefix", "downloadFormat"}
        \subseteq DOMAIN manifest[k].dep

\* C7 as stated: a files entry with all its mandatory keys never fails
\* validation because of its url, whatever the url ends in.
C7_Original ==
    (Validated /\ FilesMandatoryPresent(1) /\ HasFormat(1, "files"))
        => err.kind # "url"

\* C7 amended: a files entry with all its mandatory keys fails validation
\* (exit status 1, on account of the url) exactly when its url, cut before its
\* last '#' if it has one, ends in ".zip" or in ".tar.gz"; with any other url
\* it passes.
C7_FilesUrlMustNotLookLikeArchive ==
    (Validated /\ FilesMandatoryPresent(1) /\ HasFormat(1, "files")) =>
        IF \/ EndsIn(BeforeFragment(Url(1)), ".zip")
           \/ EndsIn(BeforeFragment(Url(1)), ".tar.gz")
        THEN pc = "exit1" /\ err.kind = "url"
        ELSE pc = "loop" /\ err = NoErr

C7_Witness ==
    /\ FilesMandatoryPresent(1)
    /\ HasFormat(1, "files")
    /\ EndsIn(Url(1), ".tar.gz")
    /\ pc = "exit1"
    /\ err.kind = "url"

InFetcher(fmt) == Started /\ call.fmt = fmt

ContentAtCall ==
    IF TargetExistedAtCall THEN callFs[call.parent][call.target] ELSE {}

Listed == {call.files[k] : k \in 1..Len(call.files)}

CallsSince(n) == {k \in (n + 1)..Len(net) : TRUE}

\* fs differs from callFs at most in the content of the target directory
OnlyTargetChanged ==
    /\ \A d \in Dirs \ {call.parent} : fs[d] = callFs[d]
    /\ DOMAIN fs[call.parent] = DOMAIN callFs[call.parent]
    /\ \A n \in DOMAIN fs[call.parent] \ {call.target} :
            fs[call.parent][n] = callFs[call.parent][n]

\* C4 as stated: whenever any of the three fetchers is invoked and its target
\* directory already exists, it makes no network call and leaves the
\* filesystem unchanged.
C4_Original ==
    TargetExistedAtCall => (fs = callFs /\ Len(net) = callNet /\ ~tmp)

\* C4 amended: download_and_unzip_files and download_and_untar_files, invoked
\* when the target directory exists, make no network call and leave the
\* filesystem unchanged, whatever the directory holds; download_files, invoked
\* when its target directory exists, makes a network call only for a listed
\* file that is missing from it, adds only such files to it and leaves every
\* other file and directory unchanged.
C4_SkipWhenTargetExists ==
    TargetExistedAtCall =>
        /\ call.fmt \in {"zip", "tar"} =>
                (fs = callFs /\ Len(net) = callNet /\ ~tmp)
        /\ call.fmt = "files" =>
                /\ OnlyTargetChanged
                /\ ContentAtCall \subseteq fs[call.parent][call.target]
                /\ fs[call.parent][call.target] \ ContentAtCall
                        \subseteq Listed \ ContentAtCall
                /\ \A k \in CallsSince(callNet) :
                        net[k].arg \in Listed \ ContentAtCall
                /\ ~tmp

C4_Witness ==
    /\ InFetcher("zip")
    /\ TargetExistedAtCall
    /\ ContentAtCall = {"a"}
    /\ pc = "return"

Count(f) == Cardinality({k \in CallsSince(callNet) : net[k].arg = f})

\* C5: download_files downloads each listed file that is missing from the
\* target directory exactly once, even when its name is listed twice, never
\* downloads a file that is present, and on normal return every listed file
\* is in the target directory.
C5_DownloadsExactlyTheMissing ==
    InFetcher("files") =>
        /\ \A f \in FileNames :
                /\ Count(f) <= 1
                /\ (f \in ContentAtCall \/ f \notin Listed) => Count(f) = 0
        /\ pc \in {"files_loop", "return", "raised"} =>
                /\ OnlyTargetChanged \/ ~TargetExistedAtCall
                /\ ContentAtCall \subseteq fs[call.parent][call.target]
        /\ pc = "return" =>
                /\ fs[call.parent][call.target] = ContentAtCall \cup Listed
                /\ \A f \in Listed \ ContentAtCall : Count(f) = 1

C5_Witness ==
    /\ InFetcher("files")
    /\ call.files = <<"a", "b", "a">>
    /\ ContentAtCall = {"b"}
    /\ Len(net) = callNet + 1
    /\ pc = "return"

ArchiveDownloaded ==
    /\ Len(net) > callNet
    /\ ~(pc = "raised" /\ err.key = "url_retrieve")

\* C6: in download_and_unzip_files, once the archive has been downloaded to
\* TMP_UNZIP_PATH, the temporary file does not exist when the function ends,
\* whether it returns or raises (in the fallback fetch, the fallback
\* extraction or the rename).
C6_TmpRemoved ==
    (InFetcher("zip") /\ ArchiveDownloaded /\ pc \in {"return", "raised"})
        => ~tmp

C6_Witness ==
    /\ InFetcher("zip")
    /\ Len(net) = callNet + 2
    /\ pc = "raised"
    /\ err.key = "rename"
    /\ ~tmp

\* C8 as stated: when download_all_dependencies returns normally (here
\* after a start from empty directories), the resolved target path of every
\* entry exists under TARGET_DOWNLOAD_DIRS[category].
C8_Claim ==
    (pc = "done" /\ startFs = EmptyFs) =>
        \A k \in 1..Len(manifest) :
            LET r == LoopBody(manifest[k].data, manifest[k].dep)
            IN  r.kind = "call" => r.call.target \in DOMAIN fs[r.call.parent]

\* C9 as stated: a manifest that passes validation never fails on the lookup
\* of an unknown category after a dependency has been fetched: the unknown
\* category is rejected before any fetcher runs.
C9_Claim ==
    (pc = "raised" /\ err = [kind |-> "KeyError", key |-> "category"])
        => (net = <<>> /\ fs = startFs)

\* C10 as stated: for the zip and tar fetchers, in every state of a run that
\* may fail at any step, a target path that the call brought into existence
\* holds the completely extracted archive, for every choice of root name and
\* target name.
C10_Claim ==
    (Started /\ call.fmt \in {"zip", "tar"} /\ ~TargetExistedAtCall
        /\ call.target \in DOMAIN fs[call.parent])
        => Members(Len(ArchiveMembers)) \subseteq fs[call.parent][call.target]

====
